---- MODULE Spec2Model ----
(***************************************************************************)
(* pngme: the chunk type (src/src/chunk_type.rs), the chunk codec          *)
(* (src/src/chunk.rs) and the commands of src/src/main.rs that rewrite a   *)
(* PNG file.                                                               *)
(*                                                                         *)
(* A u8 is a number in 0..255 and a byte buffer a sequence of them.  A u32 *)
(* is a record [hi, lo] of its two 16-bit halves; from_be_bytes and        *)
(* to_be_bytes convert between that and four bytes.  A &str is the         *)
(* sequence of its Unicode scalar values; as_bytes is its UTF-8 encoding.  *)
(* A Result is a record whose kind is "ok" or "err"; a panic of the Rust   *)
(* code (a slice index out of range, expect on an Err) has kind "panic".   *)
(***************************************************************************)
EXTENDS Integers, Sequences, FiniteSets, TLC

VARIABLES pc, text, ctype, chunk, value, tamper, parsed, out, flags,
          file, cmd, status, png, removed

codecVars == <<pc, text, ctype, chunk, value, tamper, parsed, out, flags>>
pngVars == <<file, cmd, status, png, removed>>
vars == <<pc, text, ctype, chunk, value, tamper, parsed, out, flags,
          file, cmd, status, png, removed>>

(***************************************************************************)
(* Bounds and input alphabets.                                             *)
(***************************************************************************)
\* longest chunk type text handed to ChunkType::from_str
MaxTagLen == 5
\* longest data handed to Chunk::new
MaxDataLen == 2
\* largest value written into the length field of a buffer by hand
MaxDeclared == 3
\* most chunks in a PNG file
MaxChunks == 3

\* 'R', 't', '1' and U+00E9 (two bytes in UTF-8)
TagChars == {82, 116, 49, 233}
\* data bytes handed to Chunk::new
DataBytes == {0, 255}
\* bytes of the chunk types a foreign writer puts into a buffer:
\* '@' 'Z' 'z' '{', the ends of the ASCII letters and their neighbours
RawBytes == {64, 90, 122, 123}

RECURSIVE SeqsUpTo(_, _)
SeqsUpTo(S, n) ==
    IF n = 0 THEN {<<>>}
    ELSE LET shorter == SeqsUpTo(S, n - 1)
         IN  shorter \cup {Append(q, x) : q \in shorter, x \in S}

RECURSIVE Pow2(_)
Pow2(k) == IF k = 0 THEN 1 ELSE 2 * Pow2(k - 1)

\* bitwise exclusive or, bit by bit
RECURSIVE XorBits(_, _)
XorBits(a, b) ==
    IF a = 0 THEN b
    ELSE IF b = 0 THEN a
    ELSE ((a + b) % 2) + (2 * XorBits(a \div 2, b \div 2))

\* XorBits of every two bytes, computed once
XorTable ==
    SubSeq([a \in 1..256 |->
               SubSeq([b \in 1..256 |-> XorBits(a - 1, b - 1)], 1, 256)],
           1, 256)

\* bitwise exclusive or, byte by byte
RECURSIVE Xor(_, _)
Xor(a, b) ==
    IF a < 256 /\ b < 256 THEN XorTable[a + 1][b + 1]
    ELSE XorTable[(a % 256) + 1][(b % 256) + 1]
             + (256 * Xor(a \div 256, b \div 256))

Ok(v) == [kind |-> "ok", val |-> v]
Err(m) == [kind |-> "err", msg |-> m]
Panic(m) == [kind |-> "panic", msg |-> m]
None == [kind |-> "none"]

(***************************************************************************)
(* u32                                                                     *)
(***************************************************************************)
\* u32::from_be_bytes
FromBeBytes(b) == [hi |-> (b[1] * 256) + b[2], lo |-> (b[3] * 256) + b[4]]

\* u32::to_be_bytes
ToBeBytes(w) == <<w.hi \div 256, w.hi % 256, w.lo \div 256, w.lo % 256>>

\* usize as u32: the low 32 bits
AsU32(n) == [hi |-> (n \div 65536) % 65536, lo |-> n % 65536]

XorU32(a, b) == [hi |-> Xor(a.hi, b.hi), lo |-> Xor(a.lo, b.lo)]

(***************************************************************************)
(* CRC-32/ISO-HDLC, as Crc::<u32>::new(&CRC_32_ISO_HDLC).checksum computes *)
(* it: reflected, polynomial 0xEDB88320, init and xorout 0xFFFFFFFF, one   *)
(* table lookup per byte.                                                  *)
(***************************************************************************)
CRC_32_ISO_HDLC ==
    [poly |-> [hi |-> 60856, lo |-> 33568],
     init |-> [hi |-> 65535, lo |-> 65535],
     xorout |-> [hi |-> 65535, lo |-> 65535]]

Shr1(w) == [hi |-> w.hi \div 2, lo |-> ((w.hi % 2) * 32768) + (w.lo \div 2)]

Shr8(w) == [hi |-> w.hi \div 256, lo |-> ((w.hi % 256) * 256) + (w.lo \div 256)]

RECURSIVE CrcBits(_, _)
CrcBits(w, n) ==
    IF n = 0 THEN w
    ELSE CrcBits(IF w.lo % 2 = 1 THEN XorU32(Shr1(w), CRC_32_ISO_HDLC.poly)
                 ELSE Shr1(w),
                 n - 1)

CRC32_ISO == SubSeq([i \in 1..256 |-> CrcBits([hi |-> 0, lo |-> i - 1], 8)], 1, 256)

RECURSIVE CrcUpdate(_, _, _)
CrcUpdate(w, bytes, i) ==
    IF i > Len(bytes) THEN w
    ELSE CrcUpdate(XorU32(Shr8(w), CRC32_ISO[Xor(w.lo % 256, bytes[i]) + 1]),
                   bytes, i + 1)

Checksum(bytes) ==
    XorU32(CrcUpdate(CRC_32_ISO_HDLC.init, bytes, 1), CRC_32_ISO_HDLC.xorout)

(***************************************************************************)
(* &str                                                                    *)
(***************************************************************************)
\* the UTF-8 encoding of one char
Utf8(c) ==
    IF c < 128 THEN <<c>>
    ELSE IF c < 2048 THEN <<192 + (c \div 64), 128 + (c % 64)>>
    ELSE <<224 + (c \div 4096), 128 + ((c \div 64) % 64), 128 + (c % 64)>>

RECURSIVE StrAsBytes(_)
StrAsBytes(s) ==
    IF s = <<>> THEN <<>> ELSE Utf8(Head(s)) \o StrAsBytes(Tail(s))

IsAsciiUppercase(c) == c \in 65..90
IsAsciiLowercase(c) == c \in 97..122
IsAsciiAlphabetic(c) == IsAsciiUppercase(c) \/ IsAsciiLowercase(c)

(***************************************************************************)
(* ChunkType: the four bytes of ChunkType(pub [u8; 4])                     *)
(***************************************************************************)
ChunkTypeTryFrom(b) == Ok(b)

\* from_str that only converts the bytes
FromStrLengthOnly(s) ==
    IF Len(StrAsBytes(s)) = 4
    THEN Ok(StrAsBytes(s))
    ELSE Err("could not convert slice to array")

FromStr(s) ==
    IF \A i \in 1..Len(s) : IsAsciiAlphabetic(s[i])
    THEN IF Len(StrAsBytes(s)) = 4
         THEN Ok(StrAsBytes(s))
         ELSE Err("could not convert slice to array")
    ELSE Err("type is not ascii alphabetic")

is_critical(t) == IsAsciiUppercase(t[1])
is_public(t) == IsAsciiUppercase(t[2])
is_reserved_bit_valid(t) == IsAsciiUppercase(t[3])
is_safe_to_copy(t) == IsAsciiLowercase(t[4])
is_valid(t) == is_reserved_bit_valid(t)

Flags(t) ==
    [kind |-> "flags", of |-> t,
     critical |-> is_critical(t), public |-> is_public(t),
     reserved |-> is_reserved_bit_valid(t), safe |-> is_safe_to_copy(t),
     valid |-> is_valid(t)]

(***************************************************************************)
(* Chunk                                                                   *)
(***************************************************************************)
\* calculate_crc that leaves the type bytes out
CalculateCrcDataOnly(chunk_type, data) == Checksum(data)

calculate_crc(chunk_type, data) == Checksum(chunk_type \o data)

\* Chunk::new whose length counts the type bytes too
NewLengthWithType(chunk_type, data) ==
    [length |-> AsU32(Len(data) + 4), type |-> chunk_type, data |-> data,
     crc |-> calculate_crc(chunk_type, data)]

New(chunk_type, data) ==
    [length |-> AsU32(Len(data)), type |-> chunk_type, data |-> data,
     crc |-> calculate_crc(chunk_type, data)]

\* as_bytes that writes the two numbers little-endian
AsBytesLittleEndian(c) ==
    LET le(b) == <<b[4], b[3], b[2], b[1]>>
    IN  le(ToBeBytes(c.length)) \o c.type \o c.data \o le(ToBeBytes(c.crc))

AsBytes(c) == ToBeBytes(c.length) \o c.type \o c.data \o ToBeBytes(c.crc)

\* try_from that does not compare the crc
TryFromNoCrcCheck(v) ==
    IF Len(v) < 12 THEN Panic("range out of bounds")
    ELSE LET length == FromBeBytes(SubSeq(v, 1, 4))
             data == SubSeq(v, 9, Len(v) - 4)
         IN  IF length # AsU32(Len(data)) THEN Err("invalid length")
             ELSE Ok([length |-> length, type |-> SubSeq(v, 5, 8),
                      data |-> data,
                      crc |-> FromBeBytes(SubSeq(v, Len(v) - 3, Len(v)))])

\* try_from that does not compare the length
TryFromNoLengthCheck(v) ==
    IF Len(v) < 12 THEN Panic("range out of bounds")
    ELSE LET length == FromBeBytes(SubSeq(v, 1, 4))
             data == SubSeq(v, 9, Len(v) - 4)
             crc == FromBeBytes(SubSeq(v, Len(v) - 3, Len(v)))
         IN  IF crc # calculate_crc(SubSeq(v, 5, 8), data) THEN Err("invalid crc")
             ELSE Ok([length |-> length, type |-> SubSeq(v, 5, 8),
                      data |-> data, crc |-> crc])

\* Chunk::try_from(&[u8]).  value[a..b] panics when b exceeds the length or
\* a exceeds b; value.len() - 4 is only reached with value.len() >= 8.
TryFrom(v) ==
    IF Len(v) < 4 THEN Panic("range end index 4 out of range")
    ELSE IF Len(v) < 8 THEN Panic("range end index 8 out of range")
    ELSE IF 8 > Len(v) - 4 THEN Panic("slice index starts at 8 but ends before")
    ELSE LET length == FromBeBytes(SubSeq(v, 1, 4))
             type == ChunkTypeTryFrom(SubSeq(v, 5, 8))
             data == SubSeq(v, 9, Len(v) - 4)
             crc == FromBeBytes(SubSeq(v, Len(v) - 3, Len(v)))
         IN  IF type.kind # "ok" THEN type
             ELSE IF crc # calculate_crc(type.val, data) THEN Err("invalid crc")
             ELSE IF length # AsU32(Len(data)) THEN Err("invalid length")
             ELSE Ok([length |-> length, type |-> type.val, data |-> data,
                      crc |-> crc])

(***************************************************************************)
(* The chunk codec as a state machine.  One run builds a chunk type from   *)
(* text, a chunk from it, serializes the chunk, lets the bytes be damaged  *)
(* on the way, parses them and serializes the parsed chunk again.          *)
(*   pc      where the run stands                                          *)
(*   text    the &str handed to ChunkType::from_str                        *)
(*   ctype   its Result                                                    *)
(*   chunk   the Chunk that Chunk::new returned                            *)
(*   value   the buffer handed to Chunk::try_from                          *)
(*   tamper  what was done to value after it was written                   *)
(*   parsed  the Result of Chunk::try_from(value)                          *)
(*   out     as_bytes of the parsed chunk                                  *)
(*   flags   the answers of the is_* methods of one chunk type             *)
(***************************************************************************)
TagTexts == SeqsUpTo(TagChars, MaxTagLen)
Datas == SeqsUpTo(DataBytes, MaxDataLen)
RawTypes == {<<a, b, c, d>> : a \in RawBytes, b \in RawBytes,
                              c \in RawBytes, d \in RawBytes}

CodecInit ==
    /\ pc = "idle"
    /\ text = <<>>
    /\ ctype = None
    /\ chunk = None
    /\ value = <<>>
    /\ tamper = None
    /\ parsed = None
    /\ out = <<>>
    /\ flags = None

\* ChunkType::from_str(s)
FromStrStep ==
    /\ pc = "idle"
    /\ \E s \in TagTexts :
          /\ text' = s
          /\ ctype' = FromStr(s)
    /\ pc' = "type"
    /\ UNCHANGED <<chunk, value, tamper, parsed, out, flags>>
    /\ UNCHANGED pngVars

\* the is_* methods of the chunk type built from text
InspectType ==
    /\ pc = "type"
    /\ ctype.kind = "ok"
    /\ flags' = Flags(ctype.val)
    /\ pc' = "inspected"
    /\ UNCHANGED <<text, ctype, chunk, value, tamper, parsed, out>>
    /\ UNCHANGED pngVars

\* Chunk::new(chunk_type, data)
NewStep ==
    /\ pc = "type"
    /\ ctype.kind = "ok"
    /\ \E data \in Datas : chunk' = Ok(New(ctype.val, data))
    /\ pc' = "chunk"
    /\ UNCHANGED <<text, ctype, value, tamper, parsed, out, flags>>
    /\ UNCHANGED pngVars

\* chunk.as_bytes()
AsBytesStep ==
    /\ pc = "chunk"
    /\ value' = AsBytes(chunk.val)
    /\ pc' = "bytes"
    /\ UNCHANGED <<text, ctype, chunk, tamper, parsed, out, flags>>
    /\ UNCHANGED pngVars

\* a buffer put together by hand, as the tests do, with any four type bytes
Forge ==
    /\ pc = "idle"
    /\ \E type \in RawTypes, data \in Datas :
          value' = ToBeBytes(AsU32(Len(data))) \o type \o data
                       \o ToBeBytes(Checksum(type \o data))
    /\ tamper' = [kind |-> "forged"]
    /\ pc' = "bytes"
    /\ UNCHANGED <<text, ctype, chunk, parsed, out, flags>>
    /\ UNCHANGED pngVars

\* one bit of one byte of the buffer is flipped
FlipBit ==
    /\ pc = "bytes"
    /\ tamper.kind = "none"
    /\ \E i \in 1..Len(value), k \in 0..7 :
          /\ value' = [value EXCEPT ![i] = Xor(@, Pow2(k))]
          /\ tamper' = [kind |-> "flip", byte |-> i, bit |-> k]
    /\ UNCHANGED <<pc, text, ctype, chunk, parsed, out, flags>>
    /\ UNCHANGED pngVars

\* the length field is overwritten with another number
SetLength ==
    /\ pc = "bytes"
    /\ tamper.kind = "none"
    /\ \E n \in 0..MaxDeclared :
          /\ ToBeBytes(AsU32(n)) # SubSeq(value, 1, 4)
          /\ value' = ToBeBytes(AsU32(n)) \o SubSeq(value, 5, Len(value))
          /\ tamper' = [kind |-> "length", declared |-> n]
    /\ UNCHANGED <<pc, text, ctype, chunk, parsed, out, flags>>
    /\ UNCHANGED pngVars

\* the buffer is cut to its first n bytes
Truncate ==
    /\ pc = "bytes"
    /\ tamper.kind = "none"
    /\ \E n \in 0..(Len(value) - 1) :
          /\ value' = SubSeq(value, 1, n)
          /\ tamper' = [kind |-> "truncate", len |-> n]
    /\ UNCHANGED <<pc, text, ctype, chunk, parsed, out, flags>>
    /\ UNCHANGED pngVars

\* a byte is added between the data and the crc
Insert ==
    /\ pc = "bytes"
    /\ tamper.kind = "none"
    /\ \E b \in DataBytes :
          /\ value' = SubSeq(value, 1, Len(value) - 4) \o <<b>>
                          \o SubSeq(value, Len(value) - 3, Len(value))
          /\ tamper' = [kind |-> "insert", byte |-> b]
    /\ UNCHANGED <<pc, text, ctype, chunk, parsed, out, flags>>
    /\ UNCHANGED pngVars

\* Chunk::try_from(value)
TryFromStep ==
    /\ pc = "bytes"
    /\ parsed' = TryFrom(value)
    /\ pc' = "parsed"
    /\ UNCHANGED <<text, ctype, chunk, value, tamper, out, flags>>
    /\ UNCHANGED pngVars

\* the is_* methods of the type of a parsed chunk
InspectParsed ==
    /\ pc = "parsed"
    /\ parsed.kind = "ok"
    /\ flags' = Flags(parsed.val.type)
    /\ pc' = "inspected"
    /\ UNCHANGED <<text, ctype, chunk, value, tamper, parsed, out>>
    /\ UNCHANGED pngVars

\* as_bytes of the parsed chunk
Reserialize ==
    /\ pc = "parsed"
    /\ parsed.kind = "ok"
    /\ out' = AsBytes(parsed.val)
    /\ pc' = "done"
    /\ UNCHANGED <<text, ctype, chunk, value, tamper, parsed, flags>>
    /\ UNCHANGED pngVars

\* the run is over and its values are dropped
Reset ==
    /\ pc \in {"type", "parsed", "inspected", "done"}
    /\ pc' = "idle"
    /\ text' = <<>>
    /\ ctype' = None
    /\ chunk' = None
    /\ value' = <<>>
    /\ tamper' = None
    /\ parsed' = None
    /\ out' = <<>>
    /\ flags' = None
    /\ UNCHANGED pngVars

(***************************************************************************)
(* The container (module png, declared at src/src/main.rs:13) and the      *)
(* commands of main that rewrite the file.  The container is the ordered   *)
(* sequence of its chunks behind the fixed 8-byte signature.               *)
(***************************************************************************)
STANDARD_HEADER == <<137, 80, 78, 71, 13, 10, 26, 10>>

\* a u32 exceeds n, for 0 <= n < 2^31
U32Exceeds(w, n) ==
    \/ w.hi > n \div 65536
    \/ w.hi = n \div 65536 /\ w.lo > n % 65536

RECURSIVE ChunksAsBytes(_)
ChunksAsBytes(chunks) ==
    IF chunks = <<>> THEN <<>>
    ELSE AsBytes(Head(chunks)) \o ChunksAsBytes(Tail(chunks))

\* png.as_bytes()
PngAsBytes(chunks) == STANDARD_HEADER \o ChunksAsBytes(chunks)

\* the chunks of buf from offset off on, each 8 + length + 4 bytes long
RECURSIVE ParseChunks(_, _, _)
ParseChunks(buf, off, acc) ==
    IF off > Len(buf) THEN Ok(acc)
    ELSE LET rest == Len(buf) - off + 1
         IN  IF rest < 12 THEN Err("Truncated")
             ELSE LET length == FromBeBytes(SubSeq(buf, off, off + 3))
                  IN  IF U32Exceeds(length, rest - 12) THEN Err("Truncated")
                      ELSE LET size == 12 + (length.hi * 65536) + length.lo
                               c == TryFrom(SubSeq(buf, off, off + size - 1))
                           IN  IF c.kind # "ok" THEN c
                               ELSE ParseChunks(buf, off + size,
                                                Append(acc, c.val))

\* Png::try_from(&[u8])
PngParse(buf) ==
    IF Len(buf) < 8 \/ SubSeq(buf, 1, 8) # STANDARD_HEADER
    THEN Err("BadSignature")
    ELSE ParseChunks(buf, 9, <<>>)

\* png.append_chunk(chunk)
AppendChunk(chunks, c) == Append(chunks, c)

\* every chunk but the first one of the type
RECURSIVE WithoutFirst(_, _)
WithoutFirst(chunks, type) ==
    IF chunks = <<>> THEN <<>>
    ELSE IF Head(chunks).type = type THEN Tail(chunks)
    ELSE <<Head(chunks)>> \o WithoutFirst(Tail(chunks), type)

\* remove_chunk that deletes every chunk of the type
RemoveAllOfType(chunks, type) ==
    IF \E i \in 1..Len(chunks) : chunks[i].type = type
    THEN Ok([chunks |-> SelectSeq(chunks, LAMBDA c : c.type # type),
             removed |-> chunks[CHOOSE i \in 1..Len(chunks) :
                                  /\ chunks[i].type = type
                                  /\ \A j \in 1..(i - 1) : chunks[j].type # type]])
    ELSE Err("ChunkNotFound")

\* png.remove_chunk(chunk_type): the chunks left and the chunk removed
RemoveChunk(chunks, type) ==
    IF \E i \in 1..Len(chunks) : chunks[i].type = type
    THEN Ok([chunks |-> WithoutFirst(chunks, type),
             removed |-> chunks[CHOOSE i \in 1..Len(chunks) :
                                  /\ chunks[i].type = type
                                  /\ \A j \in 1..(i - 1) : chunks[j].type # type]])
    ELSE Err("ChunkNotFound")

(***************************************************************************)
(*   file     the bytes of the PNG file on disk                            *)
(*   cmd      the last command and its arguments                           *)
(*   status   how it ended                                                 *)
(*   png      the chunks of the Png it held when it ended                  *)
(*   removed  the chunk that Remove took out                               *)
(***************************************************************************)
\* "RtRt", "ttRt" and "R1Rt"
CmdTypes == {<<82, 116, 82, 116>>, <<116, 116, 82, 116>>, <<82, 49, 82, 116>>}
\* "" and U+00E9
CmdMessages == {<<>>, <<233>>}

InitFiles ==
    { PngAsBytes(<<>>),
      PngAsBytes(<<New(<<64, 90, 91, 123>>, <<0>>)>>),
      SubSeq(STANDARD_HEADER, 1, 7),
      STANDARD_HEADER \o <<0, 0, 0>>,
      STANDARD_HEADER \o <<0, 0, 0, 1, 82, 116, 82, 116, 0, 0, 0, 0>> }

PngIdle ==
    /\ cmd = None
    /\ status = None
    /\ png = None
    /\ removed = None

\* Commands::Encode
Encode ==
    \E chunk_type \in CmdTypes, message \in CmdMessages :
       LET read == PngParse(file)
           type == FromStr(chunk_type)
           chunks == AppendChunk(read.val, New(type.val, StrAsBytes(message)))
       IN  /\ cmd' = [kind |-> "encode", chunk_type |-> chunk_type,
                      message |-> message]
           /\ removed' = None
           /\ IF read.kind # "ok"
              THEN /\ status' = Panic(<<"Png::from", read.msg>>)
                   /\ png' = None
                   /\ UNCHANGED file
              ELSE IF type.kind # "ok"
              THEN /\ status' = Panic(<<"Cannot create chunk", type.msg>>)
                   /\ png' = None
                   /\ UNCHANGED file
              ELSE /\ Len(read.val) < MaxChunks
                   /\ status' = Ok("Successfully added a secret message to file")
                   /\ png' = Ok(chunks)
                   /\ file' = PngAsBytes(chunks)
           /\ UNCHANGED codecVars

\* Commands::Remove
Remove ==
    \E chunk_type \in CmdTypes :
       LET read == PngParse(file)
           type == FromStr(chunk_type)
           rem == RemoveChunk(read.val, type.val)
       IN  /\ cmd' = [kind |-> "remove", chunk_type |-> chunk_type]
           /\ IF read.kind # "ok"
              THEN /\ status' = Panic(<<"Png::from", read.msg>>)
                   /\ png' = None
                   /\ removed' = None
                   /\ UNCHANGED file
              ELSE IF type.kind # "ok" \/ rem.kind # "ok"
              THEN /\ status' = Panic(<<"Cannot remove chunk",
                                        IF type.kind # "ok" THEN type.msg
                                        ELSE rem.msg>>)
                   /\ png' = None
                   /\ removed' = None
                   /\ UNCHANGED file
              ELSE /\ status' = Ok("Chunk is successfully removed!")
                   /\ png' = Ok(rem.val.chunks)
                   /\ removed' = Ok(rem.val.removed)
                   /\ file' = PngAsBytes(rem.val.chunks)
           /\ UNCHANGED codecVars

(***************************************************************************)
(* Specifications                                                          *)
(***************************************************************************)
Init ==
    /\ CodecInit
    /\ PngIdle
    /\ file = PngAsBytes(<<>>)

Next ==
    \/ FromStrStep
    \/ InspectType
    \/ NewStep
    \/ AsBytesStep
    \/ Forge
    \/ FlipBit
    \/ SetLength
    \/ Truncate
    \/ Insert
    \/ TryFromStep
    \/ InspectParsed
    \/ Reserialize
    \/ Reset

\* the chunk type and the chunk codec
Spec == Init /\ [][Next]_vars

PngInit ==
    /\ CodecInit
    /\ PngIdle
    /\ file \in InitFiles

PngNext ==
    \/ Encode
    \/ Remove

\* the commands on a file
SpecPng == PngInit /\ [][PngNext]_vars

(***************************************************************************)
(* Properties                                                              *)
(***************************************************************************)
\* Chunk::try_from has returned
Parsed == parsed.kind # "none"

\* bit 0x20 of a byte is cleared
Bit5Clear(b) == (b \div 32) % 2 = 0

\* a buffer of at least 12 bytes whose length field is not the number of
\* bytes between its type and its crc
LengthFieldOff(v) ==
    /\ Len(v) >= 12
    /\ SubSeq(v, 1, 4) # ToBeBytes(AsU32(Len(v) - 12))

\* the bytes that the first n chunks take on the wire
RECURSIVE WireSize(_, _)
WireSize(chunks, n) ==
    IF n = 0 THEN 0
    ELSE WireSize(chunks, n - 1) + 12 + Len(chunks[n].data)

\* C1: parsing the bytes of Chunk::new(type, data), empty data included,
\* succeeds and yields the length, type bytes, data and crc of that chunk.
ChunkRoundTrip ==
    (Parsed /\ chunk.kind = "ok" /\ tamper.kind = "none") =>
        /\ parsed.kind = "ok"
        /\ parsed.val.length = chunk.val.length
        /\ parsed.val.type = chunk.val.type
        /\ parsed.val.data = chunk.val.data
        /\ parsed.val.crc = chunk.val.crc

ChunkRoundTripWitness ==
    /\ pc = "parsed"
    /\ chunk.kind = "ok"
    /\ tamper.kind = "none"
    /\ chunk.val.data = <<>>
    /\ parsed.kind = "ok"

\* C2: parsing a buffer shorter than 12 bytes, or shorter than 12 bytes plus
\* its declared length, ends in an error value and never in a panic.
ShortBufferIsAnError ==
    (/\ Parsed
     /\ \/ Len(value) < 12
        \/ U32Exceeds(FromBeBytes(SubSeq(value, 1, 4)), Len(value) - 12))
        => parsed.kind = "err"

\* C3: every chunk, built by Chunk::new or returned by a parse, has length
\* equal to the number of its data bytes and crc equal to the CRC-32 of its
\* type bytes followed by its data; Chunk::new always returns such a chunk,
\* of the type it was given.
LiveChunkInvariant ==
    LET sound(c) ==
            /\ c.length.hi = 0
            /\ c.length.lo = Len(c.data)
            /\ ToBeBytes(c.crc) = ToBeBytes(Checksum(c.type \o c.data))
    IN  /\ chunk.kind = "ok" => sound(chunk.val)
        /\ parsed.kind = "ok" => sound(parsed.val)
        /\ pc = "chunk" =>
              /\ chunk.kind = "ok"
              /\ chunk.val.type = ctype.val
              /\ chunk.val.data \in Datas

LiveChunkWitness ==
    /\ pc = "parsed"
    /\ parsed.kind = "ok"
    /\ chunk.kind = "ok"
    /\ Len(chunk.val.data) > 0

\* C4: a buffer whose last four bytes are not the big-endian CRC-32 of its
\* type bytes and data is rejected with "invalid crc", and so is every
\* serialized chunk with one bit of its type or data flipped.
CrcVerified ==
    /\ (/\ Parsed
        /\ Len(value) >= 12
        /\ SubSeq(value, Len(value) - 3, Len(value))
             # ToBeBytes(Checksum(SubSeq(value, 5, Len(value) - 4))))
          => parsed = Err("invalid crc")
    /\ (/\ Parsed
        /\ tamper.kind = "flip"
        /\ tamper.byte \in 5..(Len(value) - 4))
          => parsed = Err("invalid crc")

CrcVerifiedWitness ==
    /\ pc = "parsed"
    /\ tamper.kind = "flip"
    /\ tamper.byte \in 5..8
    /\ parsed = Err("invalid crc")

\* C5, as stated: a buffer whose length field is off from the size of its
\* data fails parsing, by truncation when the field declares more bytes than
\* the buffer holds and by CRC mismatch when it declares fewer.
LengthOffFailsByCrcOrTruncation ==
    (Parsed /\ LengthFieldOff(value)) =>
        /\ parsed.kind = "err"
        /\ U32Exceeds(FromBeBytes(SubSeq(value, 1, 4)), Len(value) - 12)
              \/ parsed.msg = "invalid crc"

\* C5, amended: a buffer of at least 12 bytes whose length field is off from
\* the number of bytes between its type and its crc is never accepted: it
\* fails with "invalid crc" or, when its crc is right, with "invalid length".
LengthIntegrity ==
    (Parsed /\ LengthFieldOff(value)) =>
        /\ parsed.kind = "err"
        /\ parsed.msg \in {"invalid crc", "invalid length"}
        /\ parsed.msg = "invalid length" <=>
              SubSeq(value, Len(value) - 3, Len(value))
                = ToBeBytes(Checksum(SubSeq(value, 5, Len(value) - 4)))

LengthIntegrityWitness ==
    /\ pc = "parsed"
    /\ tamper.kind = "length"
    /\ tamper.declared < Len(value) - 12
    /\ parsed = Err("invalid length")

\* C6: serializing the chunk parsed from a buffer gives back that buffer,
\* byte for byte, 12 + length bytes long, with the length in its first four
\* bytes and the crc in its last four, both big-endian.
SerializeInvertsParse ==
    pc = "done" =>
        /\ out = value
        /\ parsed.val.length.hi = 0
        /\ Len(out) = 12 + parsed.val.length.lo
        /\ FromBeBytes(SubSeq(out, 1, 4)) = parsed.val.length
        /\ SubSeq(out, 5, 8) = parsed.val.type
        /\ SubSeq(out, 9, Len(out) - 4) = parsed.val.data
        /\ FromBeBytes(SubSeq(out, Len(out) - 3, Len(out))) = parsed.val.crc

SerializeInvertsParseWitness ==
    /\ pc = "done"
    /\ tamper.kind = "forged"
    /\ Len(parsed.val.data) > 0
    /\ out = value

\* C7: Remove takes out and returns the first chunk of the type and leaves
\* the others, later ones of that type too, in their order; with no chunk
\* of the type it fails with ChunkNotFound and the file stays as it was.
RemoveFirstOnly ==
    [][(/\ cmd'.kind = "remove"
        /\ PngParse(file).kind = "ok"
        /\ FromStr(cmd'.chunk_type).kind = "ok")
       => LET before == PngParse(file).val
              type == FromStr(cmd'.chunk_type).val
              hits == {i \in 1..Len(before) : before[i].type = type}
          IN  IF hits = {}
              THEN /\ status' = Panic(<<"Cannot remove chunk", "ChunkNotFound">>)
                   /\ file' = file
              ELSE \E i \in hits :
                      /\ \A j \in hits : i <= j
                      /\ status'.kind = "ok"
                      /\ removed' = Ok(before[i])
                      /\ png' = Ok(SubSeq(before, 1, i - 1)
                                     \o SubSeq(before, i + 1, Len(before)))
                      /\ PngParse(file') = png']_vars

RemoveFirstOnlyWitness ==
    /\ cmd.kind = "remove"
    /\ status.kind = "ok"
    /\ Len(png.val) >= 2
    /\ png.val[2].type = removed.val.type
    /\ png.val[1].type # removed.val.type

FromStrValidates ==
    ctype.kind # "none" =>
        LET bytes == StrAsBytes(text)
        IN  /\ ctype.kind = "ok" <=>
                  /\ Len(bytes) = 4
                  /\ \A i \in 1..Len(bytes) : IsAsciiAlphabetic(bytes[i])
            /\ ctype.kind \in {"ok", "err"}
            /\ ctype.kind = "ok" =>
                  /\ ctype.val = bytes
                  /\ ctype = ChunkTypeTryFrom(bytes)

FromStrValidatesWitness ==
    /\ pc = "type"
    /\ ctype.kind = "ok"
    /\ Len(text) = 4

\* C10: each flag of a chunk type is the test of bit 0x20 of one byte:
\* cleared in byte 0, 1, 2 for critical, public, reserved-valid, set in
\* byte 3 for safe-to-copy, and is_valid is the reserved-valid flag.
FlagsAreBitTests ==
    flags.kind = "flags" =>
        /\ flags.critical = Bit5Clear(flags.of[1])
        /\ flags.public = Bit5Clear(flags.of[2])
        /\ flags.reserved = Bit5Clear(flags.of[3])
        /\ flags.safe = ~Bit5Clear(flags.of[4])
        /\ flags.valid = flags.reserved

====
